---------------------------- MODULE Spec2Model ----------------------------
(***************************************************************************)
(* git-find-related-commits: the relatedness scan of                       *)
(* src/git_find_related_commits/__main__.py (GitHelper), its temporary     *)
(* branch scope (in_tmp_branch) and the parser of `git --shortstat`        *)
(* output (_get_shortstat_total / SHORTSTAT_RE).                           *)
(*                                                                         *)
(* Text is modelled as a sequence of one-character strings, so that the    *)
(* regular expression is matched character by character as `re` does.      *)
(***************************************************************************)
EXTENDS Integers, Sequences, FiniteSets, TLC

(***************************************************************************)
(* Bounds of the model.                                                    *)
(***************************************************************************)
\* Largest number of commits on the feature branch (len(commits)).
MaxCommits == 3
\* Largest number of text fragments an input line of the parser is built of.
MaxFragments == 4
\* Largest number of commits with which the scan is also started in a
\* working copy that holds uncommitted changes.
MaxDirtyCommits == 2
\* Largest number of commits of the scans a user may interrupt.
MaxInterruptedCommits == 2

(***************************************************************************)
(* Text helpers.                                                           *)
(***************************************************************************)
Digits == {"0", "1", "2", "3", "4", "5", "6", "7", "8", "9"}

\* The value of one decimal digit, as int() reads it.
DigitVal(c) ==
    CASE c = "0" -> 0 [] c = "1" -> 1 [] c = "2" -> 2 [] c = "3" -> 3
      [] c = "4" -> 4 [] c = "5" -> 5 [] c = "6" -> 6 [] c = "7" -> 7
      [] c = "8" -> 8 [] c = "9" -> 9

\* The digit character of a value 0..9, as str() writes it.
DigitChar(d) ==
    CASE d = 0 -> "0" [] d = 1 -> "1" [] d = 2 -> "2" [] d = 3 -> "3"
      [] d = 4 -> "4" [] d = 5 -> "5" [] d = 6 -> "6" [] d = 7 -> "7"
      [] d = 8 -> "8" [] d = 9 -> "9"

\* int(text) for a non-empty run of decimal digits.
RECURSIVE IntOf(_)
IntOf(ds) ==
    IF Len(ds) = 0 THEN 0
    ELSE 10 * IntOf(SubSeq(ds, 1, Len(ds) - 1)) + DigitVal(ds[Len(ds)])

\* The decimal text of a natural number, as git prints a count.
RECURSIVE NatToDigits(_)
NatToDigits(n) ==
    IF n < 10 THEN <<DigitChar(n)>>
    ELSE NatToDigits(n \div 10) \o <<DigitChar(n % 10)>>

(***************************************************************************)
(* SHORTSTAT_RE, matched from the start of the text (re.match: anchored at *)
(* the start, not at the end).  A position is the index of the next        *)
(* character to read; NoMatch is the failed match.  Every quantifier of    *)
(* the pattern (\d+, s?) is followed by a literal character that the       *)
(* quantified one cannot match, so the greedy reading is the only one      *)
(* backtracking can succeed with.                                          *)
(***************************************************************************)
NoMatch == 0

\* A literal piece of the pattern at position p.
MatchLit(s, p, lit) ==
    IF p # NoMatch /\ p + Len(lit) - 1 <= Len(s)
          /\ SubSeq(s, p, p + Len(lit) - 1) = lit
    THEN p + Len(lit)
    ELSE NoMatch

\* The end of the longest run of digits starting at p.
RECURSIVE DigitsEnd(_, _)
DigitsEnd(s, p) ==
    IF p <= Len(s) /\ s[p] \in Digits THEN DigitsEnd(s, p + 1) ELSE p

\* \d+
MatchDigits(s, p) ==
    IF p = NoMatch THEN NoMatch
    ELSE LET e == DigitsEnd(s, p) IN IF e > p THEN e ELSE NoMatch

\* s?
MatchOptS(s, p) ==
    IF p = NoMatch THEN NoMatch
    ELSE IF p <= Len(s) /\ s[p] = "s" THEN p + 1 ELSE p

\* "\ \d+\ file s?\ changed": the file-count clause, leading blank included.
MatchFileClause(s) ==
    LET p1 == MatchLit(s, 1, <<" ">>)
        p2 == MatchDigits(s, p1)
        p3 == MatchLit(s, p2, <<" ", "f", "i", "l", "e">>)
        p4 == MatchOptS(s, p3)
    IN  MatchLit(s, p4, <<" ", "c", "h", "a", "n", "g", "e", "d">>)

\* "(?: ,\ (\d+)\ <word> s? \( <sign> \) )?": an optional counted clause at p.
\* The result is the position after it and the captured digits, or the
\* position p itself and no capture when the clause does not match there.
MatchCountClause(s, p, word, sign) ==
    LET p1 == MatchLit(s, p, <<",", " ">>)
        p2 == MatchDigits(s, p1)
        p3 == MatchLit(s, p2, <<" ">> \o word)
        p4 == MatchOptS(s, p3)
        p5 == MatchLit(s, p4, <<"(", sign, ")">>)
    IN  IF p5 # NoMatch
        THEN [end |-> p5, captured |-> TRUE, group |-> SubSeq(s, p1, p2 - 1)]
        ELSE [end |-> p, captured |-> FALSE, group |-> <<>>]

W_insertion == <<"i", "n", "s", "e", "r", "t", "i", "o", "n">>
W_deletion == <<"d", "e", "l", "e", "t", "i", "o", "n">>

\* SHORTSTAT_RE.match(text): whether it matched, and groups 1 and 2.
SHORTSTAT_RE(s) ==
    LET p0 == MatchFileClause(s)
    IN  IF p0 = NoMatch
        THEN [matched |-> FALSE, g1 |-> <<>>, has1 |-> FALSE,
              g2 |-> <<>>, has2 |-> FALSE]
        ELSE LET ins == MatchCountClause(s, p0, W_insertion, "+")
                 del == MatchCountClause(s, ins.end, W_deletion, "-")
             IN  [matched |-> TRUE, g1 |-> ins.group, has1 |-> ins.captured,
                  g2 |-> del.group, has2 |-> del.captured]

\* int(match.group(k) or 0)
GroupOrZero(has, g) == IF has THEN IntOf(g) ELSE 0

\* A slip in line 164: the deletions are left out of the total.
ShortstatSum_InsertionsOnly(m) == GroupOrZero(m.has1, m.g1)

\* int(match.group(1) or 0) + int(match.group(2) or 0)
ShortstatSum(m) == GroupOrZero(m.has1, m.g1) + GroupOrZero(m.has2, m.g2)

\* _get_shortstat_total: the total, or the RuntimeError of a failed match.
get_shortstat_total(s) ==
    LET m == SHORTSTAT_RE(s)
    IN  IF ~m.matched
        THEN [ok |-> FALSE, value |-> 0]
        ELSE [ok |-> TRUE, value |-> ShortstatSum(m)]

(***************************************************************************)
(* Input lines of the parser, built of fragments.                          *)
(***************************************************************************)
F_lead == [kind |-> "lead", n |-> 0, plural |-> FALSE]
F_file(n, pl) == [kind |-> "file", n |-> n, plural |-> pl]
F_ins(n, pl) == [kind |-> "ins", n |-> n, plural |-> pl]
F_del(n, pl) == [kind |-> "del", n |-> n, plural |-> pl]
F_extra == [kind |-> "extra", n |-> 0, plural |-> FALSE]
F_misspelt == [kind |-> "misspelt", n |-> 3, plural |-> FALSE]

Fragments ==
    {F_lead, F_file(1, FALSE), F_file(2, TRUE),
     F_ins(1, FALSE), F_ins(3, TRUE), F_ins(12, TRUE),
     F_del(1, FALSE), F_del(2, TRUE), F_del(5, TRUE),
     F_extra, F_misspelt}

Plural(pl) == IF pl THEN <<"s">> ELSE <<>>

\* The text of one fragment, as git prints the clause.
Render(f) ==
    CASE f.kind = "lead" -> <<" ">>
      [] f.kind = "file" ->
            NatToDigits(f.n) \o <<" ", "f", "i", "l", "e">> \o Plural(f.plural)
              \o <<" ", "c", "h", "a", "n", "g", "e", "d">>
      [] f.kind = "ins" ->
            <<",", " ">> \o NatToDigits(f.n) \o <<" ">> \o W_insertion
              \o Plural(f.plural) \o <<"(", "+", ")">>
      [] f.kind = "del" ->
            <<",", " ">> \o NatToDigits(f.n) \o <<" ">> \o W_deletion
              \o Plural(f.plural) \o <<"(", "-", ")">>
      [] f.kind = "extra" -> <<" ", "e", "x", "t", "r", "a">>
      [] f.kind = "misspelt" ->
            <<",", " ">> \o NatToDigits(f.n)
              \o <<" ", "i", "n", "s", "e", "r", "t", "i", "o", "n", "z">>
              \o <<"(", "+", ")">>

RECURSIVE RenderLine(_)
RenderLine(fs) ==
    IF Len(fs) = 0 THEN <<>> ELSE Render(Head(fs)) \o RenderLine(Tail(fs))

\* Whether a git command succeeds (TRUE) or raises GitCommandError (FALSE):
\* the model lets every invocation of git fail.
GitOutcomes == BOOLEAN

\* What `git diff --shortstat <commit0>..HEAD` can print: nothing at all when
\* there is no line difference, else one summary line (1, 2 and 4 lines).
DiffOutputs ==
    {<<>>,
     RenderLine(<<F_lead, F_file(1, FALSE), F_ins(1, FALSE)>>),
     RenderLine(<<F_lead, F_file(1, FALSE), F_ins(1, FALSE), F_del(1, FALSE)>>),
     RenderLine(<<F_lead, F_file(2, TRUE), F_ins(3, TRUE), F_del(1, FALSE)>>)}

\* What `git show --shortstat --format= <commit2>` can print (nothing, or a
\* commit of 2 lines).
ShowOutputs ==
    {<<>>,
     RenderLine(<<F_lead, F_file(1, FALSE), F_del(2, TRUE)>>)}

\* The parser's answer for each output git can print.
ParsedOutput == [o \in DiffOutputs \cup ShowOutputs |-> get_shortstat_total(o)]

(***************************************************************************)
(* The repository and the scan.                                            *)
(***************************************************************************)
\* _TmpBranchName, and the feature branch that is active at start
\* (self.local_branch; __init__ asserts the two names differ).
TmpBranchName == "tmp-find-related-commits"
LocalBranch == "feature"
BranchNames == {LocalBranch, TmpBranchName}

\* Commit objects: the merge base is Commit(0), the commits of the feature
\* branch are Commit(1) .. Commit(nCommits), oldest first, and Picked(a, b) is
\* the commit a successful cherry-pick of Commit(b) onto Commit(a) creates.
NoCommit == <<>>
Commit(k) == <<k>>
Picked(a, b) == <<a, b>>

VARIABLES
    \* the repository
    heads,              \* branch name -> the commit it points to, or NoCommit
    active,             \* repo.active_branch
    worktree,           \* the working copy: the commit checked out and its
                        \* uncommitted state ("clean", "user", "conflict")
    \* GitHelper.apply_and_diff_commit_pairs and what it calls
    pc,                 \* the statement to run next
    nCommits,           \* len(commits)
    i,                  \* index of commit1 (1-based)
    j,                  \* index of commit2
    diff_count1,
    diff_count2,
    results,            \* list of (rel_diff_c, rel_diff, commit1, commit2)
    exc,                \* the exception in flight: "none", "GitCommandError",
                        \* "RuntimeError"
    prev_active_branch, \* local of in_tmp_branch
    report,             \* what print_results has printed
    statusPrinted,      \* whether the except clause printed `git status`
    \* history, for the properties
    worktree0,          \* the working copy at start
    activeAtEntry,      \* the active branch when the scope was entered
    headsAtEntry,       \* the branches when the scope was entered
    scope,              \* "out", "in", "cleanup", "exited"
    cleanupLog,         \* the cleanup commands run at the last scope exit
    lastTrial,          \* the trial just finished, or NoTrial
    conflicted,         \* the pairs whose replay conflicted
    tried,              \* the pairs whose replay was attempted
    trace,              \* the scope events so far: open, trial, close
    lastMeasure,        \* the size measurement just made, or NoMeasure
    statusShown,        \* what the except clause's `git status` showed
    \* the history of the feature branch and the backend's answers
    merges,             \* the commits that have more than one parent
    run,                \* 0: a single scan; 1, 2: first and second of two
    answers,            \* run 1: the backend's answer to each query
    report1,            \* the report of run 1
    \* the parser on its own
    frags,              \* the fragments the input line was built of
    line,               \* the input line
    parsed              \* the parser's answer for the line, once it has run

repoVars == <<heads, active, worktree>>
scanVars == <<pc, nCommits, i, j, diff_count1, diff_count2, results, exc,
              prev_active_branch, report, statusPrinted>>
entryVars == <<activeAtEntry, headsAtEntry>>
histVars == <<worktree0, entryVars, scope, cleanupLog, lastTrial,
              conflicted, tried, trace, lastMeasure, statusShown>>
backendVars == <<merges, run, answers, report1>>
parseVars == <<frags, line, parsed>>
vars == <<repoVars, scanVars, histVars, backendVars, parseVars>>

\* A finished trial: its kind ("conflict", "error", "applied", "measured"), the
\* pair, and the three measurements of a measured one.
Trial(kind, c1, c2, b, c, s) ==
    [kind |-> kind, c1 |-> c1, c2 |-> c2,
     baseline |-> b, combined |-> c, standalone |-> s]
NoTrial == Trial("none", 0, 0, 0, 0, 0)

\* A size measurement: which one ("baseline", "combined", "standalone"), the
\* pair it was made for, and what git answered: "failed" (GitCommandError),
\* "empty" (no output at all) or "summary" (one summary line).
Measure(what, c1, c2, answer) ==
    [what |-> what, c1 |-> c1, c2 |-> c2, answer |-> answer]
NoMeasure == Measure("none", 0, 0, "none")
AnswerKind(ok, o) ==
    IF ~ok THEN "failed" ELSE IF o = <<>> THEN "empty" ELSE "summary"

\* The events of the trace.
Open(c1) == <<"open", c1, 0>>
Tried(c1, c2) == <<"trial", c1, c2>>
Close(c1) == <<"close", c1, 0>>
Interrupted(c1, c2, partial) ==
    <<IF partial THEN "interrupt_partial" ELSE "interrupt", c1, c2>>

\* What `git status` showed in the except clause: nothing yet, or the
\* active branch and the working copy at that moment (ok), or the command
\* failed.
StatusOf(ran, ok, a, w) ==
    [ran |-> ran, ok |-> ok, active |-> a, worktree |-> w]
NoStatus ==
    StatusOf(FALSE, FALSE, LocalBranch, [at |-> NoCommit, mods |-> "clean"])
NotParsed == [ok |-> FALSE, value |-> -1]

(***************************************************************************)
(* git, as the scan uses it.                                               *)
(***************************************************************************)
\* A slip in line 94: `git reset <commit>` without --hard, which moves the
\* branch and leaves the working copy's uncommitted state as it is.
ResetHard_KeepsChanges(target) ==
    /\ heads' = [heads EXCEPT ![active] = target]
    /\ worktree' = [worktree EXCEPT !.at = target]
    /\ UNCHANGED active

\* `git reset --hard <commit>`: the active branch and the working copy are
\* moved to the commit and every uncommitted change is discarded.
ResetHard(target) ==
    /\ heads' = [heads EXCEPT ![active] = target]
    /\ worktree' = [at |-> target, mods |-> "clean"]
    /\ UNCHANGED active

\* A slip in line 117: the branch is created and never checked out.
Checkout_Stays(branch) == UNCHANGED <<heads, active, worktree>>

\* `git checkout <branch>`: uncommitted changes are carried along.
Checkout(branch) ==
    /\ active' = branch
    /\ worktree' = [worktree EXCEPT !.at = heads[branch]]
    /\ UNCHANGED heads

\* The outcomes of `git cherry-pick`: the commit applies, it conflicts, or
\* the command fails for another reason (I/O failure, corrupted repository).
PickOutcomes == {"applied", "conflict", "error"}

\* `git cherry-pick <commit2>` of commit number k: a commit with more than
\* one parent is refused ("is a merge but no -m option was given").
PickOutcomesOf(k) == IF k \in merges THEN {"error"} ELSE PickOutcomes

\* The answer of git to `diff --shortstat` or `show --shortstat`: whether
\* the command succeeded and, if it did, its output.
Answer(ok, o) == IF ok THEN <<ok, o>> ELSE <<ok, <<>>>>

\* The queries whose answer depends on the content of the repository: the
\* baseline diff of commit1, and the replay, the combined diff and the
\* standalone size for the pair (commit1, commit2).
Query(kind, c1, c2) == <<kind, c1, c2>>

\* An unchanged repository answers a query of the second scan as it answered
\* it in the first.
Replays(q, a) == run = 2 => (q \in DOMAIN answers /\ answers[q] = a)

\* The first of two scans notes each answer.
Recorded(q, a) == IF run = 1 THEN (q :> a) @@ answers ELSE answers
NoAnswers == <<>>

(***************************************************************************)
(* Python values and control flow of the scan.                             *)
(***************************************************************************)
\* Optional[int]: None is <<>>, a number n is <<n>>.
None == <<>>
Some(n) == <<n>>

\* Line 71: `(commit0,) = commit1.parents` raises ValueError for commit
\* number k when it has more than one parent.
UnpackParents(k) == IF k \in merges THEN "ValueError" ELSE "none"

\* A slip in line 79: commits[i:] for commits[i + 1 :].
FirstCommit2_Self(k) == k

\* Line 79: commits[i + 1 :], the index of the first commit2 for commit1
\* number k (the model counts commits from 1, enumerate from 0).
FirstCommit2(k) == k + 1

\* A slip in lines 96-100: no except clause around the cherry-pick.
CatchesPickError_Nothing(kind) == FALSE

\* `except git.GitCommandError:` around the cherry-pick (lines 96-100):
\* which failures of the replay the generator absorbs.
CatchesPickError(kind) == kind \in {"conflict", "error"}

\* A slip in line 105: `rel_diff_c > 0` for `rel_diff_c >= 0`.
Yielded_ZeroKept(rel_diff, rel_diff_c) ==
    IF rel_diff_c > 0
    THEN <<None, None>>
    ELSE <<Some(rel_diff), Some(rel_diff_c)>>

\* Lines 105-110: what the generator yields for (rel_diff, rel_diff_c).
Yielded(rel_diff, rel_diff_c) ==
    IF rel_diff_c >= 0
    THEN <<None, None>>
    ELSE <<Some(rel_diff), Some(rel_diff_c)>>

\* Line 82: `if rel_diff is not None and rel_diff_c is not None`.
Appends(y) == y[1] # None /\ y[2] # None

\* Line 83: results.append((rel_diff_c, rel_diff, commit1, commit2)).
ResultTuple(y, c1, c2) == <<y[2][1], y[1][1], c1, c2>>

\* A slip in lines 118-127: the cleanup is written for exceptions of the
\* program (`except Exception`), and a KeyboardInterrupt passes it by.
AfterBody_InterruptEscapes(e) ==
    CASE e = "GitCommandError" -> "except_status"
      [] e = "KeyboardInterrupt" -> "cleanup_end"
      [] OTHER -> "cleanup_reset"

\* A slip in lines 118-127: the cleanup runs when the body ends normally or
\* with a GitCommandError, and is skipped for any other exception.
AfterBody_FinallySkipped(e) ==
    CASE e = "GitCommandError" -> "except_status"
      [] e = "none" -> "cleanup_reset"
      [] OTHER -> "cleanup_end"

\* in_tmp_branch, lines 118-124: where control goes when the body of the
\* `with` ends with exception e ("none": it ended normally).  Only a
\* GitCommandError enters the except clause; the finally clause always runs.
AfterBody(e) ==
    IF e = "GitCommandError" THEN "except_status" ELSE "cleanup_reset"

\* A slip in lines 125-127: the branch is deleted before it is left.
NextCleanupPc_DeleteFirst(step) ==
    CASE step = "cleanup_reset" -> "cleanup_delete"
      [] step = "cleanup_delete" -> "cleanup_checkout"
      [] step = "cleanup_checkout" -> "cleanup_end"

\* in_tmp_branch, lines 125-127: the statement after each cleanup command.
NextCleanupPc(step) ==
    CASE step = "cleanup_reset" -> "cleanup_checkout"
      [] step = "cleanup_checkout" -> "cleanup_delete"
      [] step = "cleanup_delete" -> "cleanup_end"

\* A slip at the end of the `with` statement: the exception is swallowed.
AfterCleanup_Swallowed(e) == "loop"

\* The end of the `with` statement: the exception in flight is re-raised out
\* of apply_and_diff_commit_pairs, else the loop goes on.
AfterCleanup(e) == IF e = "none" THEN "loop" ELSE "raised"

\* A slip in line 175: the results are printed as the scan found them.
SortByKey_Unsorted(xs) == xs

\* A slip in line 175: a sort that is not stable, a tuple going before the
\* tuples of equal key found earlier.
RECURSIVE InsertByKey_TiesReversed(_, _)
InsertByKey_TiesReversed(sorted, x) ==
    IF Len(sorted) = 0 THEN <<x>>
    ELSE IF sorted[Len(sorted)][1] < x[1] THEN Append(sorted, x)
    ELSE Append(InsertByKey_TiesReversed(
                    SubSeq(sorted, 1, Len(sorted) - 1), x),
                sorted[Len(sorted)])

\* results.sort(key=lambda x: x[0]): a stable sort on the first component.
RECURSIVE InsertByKey(_, _)
InsertByKey(sorted, x) ==
    IF Len(sorted) = 0 THEN <<x>>
    ELSE IF sorted[Len(sorted)][1] <= x[1] THEN Append(sorted, x)
    ELSE Append(InsertByKey(SubSeq(sorted, 1, Len(sorted) - 1), x),
                sorted[Len(sorted)])

RECURSIVE SortByKey(_)
SortByKey(xs) ==
    IF Len(xs) = 0 THEN <<>>
    ELSE InsertByKey(SortByKey(SubSeq(xs, 1, Len(xs) - 1)), xs[Len(xs)])

(***************************************************************************)
(* Initial state: GitHelper(".") has been constructed on the feature       *)
(* branch, whose working copy is clean or holds uncommitted changes.       *)
(* The uncommitted changes are gone after the first reset of a scan,       *)
(* whatever the number of commits: they are explored for the shorter       *)
(* histories.                                                              *)
(***************************************************************************)
ParserInit ==
    /\ frags = <<>>
    /\ line = <<>>
    /\ parsed = NotParsed

\* The start of a scan of n commits: tmp is the commit a branch named
\* _TmpBranchName points to before the scan, NoCommit when there is no such
\* branch.  The active branch is the feature branch (lines 42-43).
ScanInitOn(n, mods, ms, r, tmp) ==
    /\ nCommits = n
    /\ merges = ms
    /\ run = r
    /\ answers = NoAnswers
    /\ report1 = None
    /\ trace = <<>>
    /\ lastMeasure = NoMeasure
    /\ statusShown = NoStatus
    /\ heads = [b \in BranchNames |->
                  IF b = LocalBranch THEN Commit(n) ELSE tmp]
    /\ active = LocalBranch
    /\ worktree = [at |-> Commit(n), mods |-> mods]
    /\ pc = "start"
    /\ i = 0
    /\ j = 0
    /\ diff_count1 = 0
    /\ diff_count2 = 0
    /\ results = <<>>
    /\ exc = "none"
    /\ prev_active_branch = LocalBranch
    /\ report = None
    /\ statusPrinted = FALSE
    /\ worktree0 = worktree
    /\ activeAtEntry = LocalBranch
    /\ headsAtEntry = heads
    /\ scope = "out"
    /\ cleanupLog = <<>>
    /\ lastTrial = NoTrial
    /\ conflicted = {}
    /\ tried = {}

\* The start of a scan in a repository that has no branch named
\* _TmpBranchName.
ScanInit(n, mods, ms, r) == ScanInitOn(n, mods, ms, r, NoCommit)

Init ==
    /\ \E n \in 0 .. MaxCommits, mods \in {"clean", "user"} :
         /\ mods = "user" => n <= MaxDirtyCommits
         /\ ScanInit(n, mods, {}, 0)
    /\ ParserInit

(***************************************************************************)
(* apply_and_diff_commit_pairs, lines 63-84.                               *)
(***************************************************************************)
\* What no statement of the scan assigns.
fixedVars == <<nCommits, merges, worktree0, run, report1, parseVars>>

\* Lines 66-69: the commit list is read and printed, results = [].
Start ==
    /\ pc = "start"
    /\ pc' = "loop"
    /\ i' = 1
    /\ UNCHANGED <<fixedVars, repoVars, j, diff_count1, diff_count2, results,
                   exc, prev_active_branch, report, statusPrinted,
                   entryVars, scope, cleanupLog, lastTrial, conflicted,
                   tried, trace, lastMeasure, statusShown, answers>>

\* Lines 70-71: the next commit1 and its single parent, or the end of the
\* loop (line 84).  The unpacking of the parents raises for a merge.
LoopHead ==
    /\ pc = "loop"
    /\ IF i > nCommits
       THEN pc' = "return" /\ UNCHANGED exc
       ELSE IF UnpackParents(i) = "none"
       THEN pc' = "enter_create" /\ UNCHANGED exc
       ELSE pc' = "raised" /\ exc' = UnpackParents(i)
    /\ scope' = "out"
    /\ UNCHANGED <<fixedVars, repoVars, i, j, diff_count1, diff_count2,
                   results, prev_active_branch, report, statusPrinted,
                   entryVars, cleanupLog, lastTrial, conflicted, tried,
                   trace, lastMeasure, statusShown, answers>>

\* The body of the `with` ends with exception e, or normally ("none").  Its
\* locals are dead from here on and the model forgets them.
LeaveBody(e) ==
    /\ exc' = e
    /\ pc' = AfterBody(e)
    /\ scope' = "cleanup"
    /\ j' = 0
    /\ diff_count1' = 0
    /\ diff_count2' = 0

\* The body goes on with statement p, its locals being k, d1 and d2.
StayInBody(p, k, d1, d2) ==
    /\ pc' = p
    /\ j' = k
    /\ diff_count1' = d1
    /\ diff_count2' = d2
    /\ UNCHANGED <<exc, scope>>

\* Line 93: the generator goes on to commit2 number k, or is exhausted and
\* the body of the `with` ends normally.
GoToCommit2(k, d1) ==
    IF k <= nCommits
    THEN StayInBody("trial_reset", k, d1, 0)
    ELSE LeaveBody("none")

(***************************************************************************)
(* in_tmp_branch, lines 112-127: entry.                                    *)
(***************************************************************************)
\* Lines 115-116: prev_active_branch = repo.active_branch, then
\* repo.create_head(_TmpBranchName, commit.hexsha, force=True).
EnterCreate ==
    /\ pc = "enter_create"
    /\ prev_active_branch' = active
    /\ activeAtEntry' = active
    /\ headsAtEntry' = heads
    /\ \E ok \in GitOutcomes :
         IF ok
         THEN /\ heads' = [heads EXCEPT ![TmpBranchName] = Commit(i)]
              /\ pc' = "enter_checkout"
              /\ UNCHANGED exc
         ELSE /\ pc' = "raised"
              /\ exc' = "GitCommandError"
              /\ UNCHANGED heads
    /\ UNCHANGED <<active, worktree>>
    /\ UNCHANGED <<fixedVars, i, j, diff_count1, diff_count2, results, report,
                   statusPrinted, scope, cleanupLog, lastTrial, conflicted,
                   tried, trace, lastMeasure, statusShown, answers>>

\* Line 117: repo.git.checkout(tmp_branch), outside the try statement.
EnterCheckout ==
    /\ pc = "enter_checkout"
    /\ \E ok \in GitOutcomes :
         IF ok
         THEN /\ Checkout(TmpBranchName)
              /\ pc' = "baseline"
              /\ scope' = "in"
              /\ cleanupLog' = <<>>
              /\ trace' = Append(trace, Open(i))
              /\ UNCHANGED exc
         ELSE /\ pc' = "raised"
              /\ exc' = "GitCommandError"
              /\ UNCHANGED <<repoVars, scope, cleanupLog, trace>>
    /\ UNCHANGED <<fixedVars, i, j, diff_count1, diff_count2, results,
                   prev_active_branch, report, statusPrinted, entryVars,
                   lastTrial, conflicted, tried, lastMeasure, statusShown,
                   answers>>

(***************************************************************************)
(* The body of the `with`: lines 75-83 and the generator of lines 93-110.  *)
(***************************************************************************)
\* Line 75: diff_count1 = self.count_changed_lines_since(commit0), then the
\* first commit2 of commits[i + 1:].
Baseline ==
    /\ pc = "baseline"
    /\ \E ok \in GitOutcomes, o \in DiffOutputs :
         /\ Replays(Query("baseline", i, 0), Answer(ok, o))
         /\ answers' = Recorded(Query("baseline", i, 0), Answer(ok, o))
         /\ lastMeasure' = Measure("baseline", i, 0, AnswerKind(ok, o))
         /\ IF ~ok
            THEN LeaveBody("GitCommandError")
            ELSE IF ~ParsedOutput[o].ok
            THEN LeaveBody("RuntimeError")
            ELSE GoToCommit2(FirstCommit2(i), ParsedOutput[o].value)
    /\ UNCHANGED <<fixedVars, repoVars, i, results, prev_active_branch,
                   report, statusPrinted, entryVars, cleanupLog,
                   lastTrial, conflicted, tried, trace, statusShown>>

\* Line 94: self.repo.git.reset("--hard", commit1).
TrialReset ==
    /\ pc = "trial_reset"
    /\ lastTrial' = NoTrial
    /\ lastMeasure' = NoMeasure
    /\ \E ok \in GitOutcomes :
         IF ok
         THEN /\ ResetHard(Commit(i))
              /\ StayInBody("trial_pick", j, diff_count1, 0)
         ELSE /\ LeaveBody("GitCommandError")
              /\ UNCHANGED repoVars
    /\ UNCHANGED <<fixedVars, i, results, prev_active_branch, report,
                   statusPrinted, entryVars, cleanupLog, conflicted,
                   tried, trace, statusShown, answers>>

\* Lines 96-100: the cherry-pick of commit2 and the except clause around it.
\* An absorbed failure yields (commit2, None, None): line 82 appends nothing.
TrialPick ==
    /\ pc = "trial_pick"
    /\ tried' = tried \cup {<<i, j>>}
    /\ trace' = Append(trace, Tried(i, j))
    /\ \E outcome \in PickOutcomesOf(j) :
         /\ Replays(Query("pick", i, j), outcome)
         /\ answers' = Recorded(Query("pick", i, j), outcome)
         /\ lastTrial' = Trial(outcome, i, j, 0, 0, 0)
         /\ conflicted' = IF outcome = "conflict"
                          THEN conflicted \cup {<<i, j>>} ELSE conflicted
         /\ CASE outcome = "applied" ->
                   /\ heads' = [heads EXCEPT ![active] = Picked(i, j)]
                   /\ worktree' = [worktree EXCEPT !.at = Picked(i, j)]
                   /\ UNCHANGED active
                   /\ StayInBody("trial_diff", j, diff_count1, 0)
              [] outcome = "conflict" ->
                   /\ worktree' = [worktree EXCEPT !.mods = "conflict"]
                   /\ UNCHANGED <<heads, active>>
                   /\ IF CatchesPickError(outcome)
                      THEN GoToCommit2(j + 1, diff_count1)
                      ELSE LeaveBody("GitCommandError")
              [] outcome = "error" ->
                   /\ UNCHANGED repoVars
                   /\ IF CatchesPickError(outcome)
                      THEN GoToCommit2(j + 1, diff_count1)
                      ELSE LeaveBody("GitCommandError")
    /\ UNCHANGED <<fixedVars, i, results, prev_active_branch, report,
                   statusPrinted, entryVars, cleanupLog, lastMeasure,
                   statusShown>>

\* Line 101: diff_count2 = self.count_changed_lines_since(commit0).
TrialDiff ==
    /\ pc = "trial_diff"
    /\ \E ok \in GitOutcomes, o \in DiffOutputs :
         /\ Replays(Query("diff", i, j), Answer(ok, o))
         /\ answers' = Recorded(Query("diff", i, j), Answer(ok, o))
         /\ lastMeasure' = Measure("combined", i, j, AnswerKind(ok, o))
         /\ IF ~ok
            THEN LeaveBody("GitCommandError")
            ELSE IF ~ParsedOutput[o].ok
            THEN LeaveBody("RuntimeError")
            ELSE StayInBody("trial_show", j, diff_count1,
                            ParsedOutput[o].value)
    /\ UNCHANGED <<fixedVars, repoVars, i, results, prev_active_branch,
                   report, statusPrinted, entryVars, cleanupLog,
                   lastTrial, conflicted, tried, trace, statusShown>>

\* Lines 102-110 and 81-83: rel_diff, the size of commit2 on its own,
\* rel_diff_c, the yield, and the append of the consumer.
TrialShow ==
    /\ pc = "trial_show"
    /\ \E ok \in GitOutcomes, o \in ShowOutputs :
         /\ Replays(Query("show", i, j), Answer(ok, o))
         /\ answers' = Recorded(Query("show", i, j), Answer(ok, o))
         /\ lastMeasure' = Measure("standalone", i, j, AnswerKind(ok, o))
         /\ IF ~ok
            THEN /\ LeaveBody("GitCommandError")
                 /\ UNCHANGED <<results, lastTrial>>
            ELSE IF ~ParsedOutput[o].ok
            THEN /\ LeaveBody("RuntimeError")
                 /\ UNCHANGED <<results, lastTrial>>
            ELSE LET rel_diff == diff_count2 - diff_count1
                     rel_diff_c == rel_diff - ParsedOutput[o].value
                     y == Yielded(rel_diff, rel_diff_c)
                 IN  /\ results' = IF Appends(y)
                                   THEN Append(results, ResultTuple(y, i, j))
                                   ELSE results
                     /\ lastTrial' = Trial("measured", i, j, diff_count1,
                                            diff_count2, ParsedOutput[o].value)
                     /\ GoToCommit2(j + 1, diff_count1)
    /\ UNCHANGED <<fixedVars, repoVars, i, prev_active_branch, report,
                   statusPrinted, entryVars, cleanupLog, conflicted,
                   tried, trace, statusShown>>

(***************************************************************************)
(* in_tmp_branch, lines 118-127: the except and finally clauses.           *)
(***************************************************************************)
\* Lines 120-123: the message and `git status` are printed and the error is
\* raised again; a failing `git status` raises in its place.
ExceptStatus ==
    /\ pc = "except_status"
    /\ \E ok \in GitOutcomes :
         /\ statusPrinted' = (statusPrinted \/ ok)
         /\ statusShown' = StatusOf(TRUE, ok, active, worktree)
    /\ pc' = "cleanup_reset"
    /\ lastTrial' = NoTrial
    /\ lastMeasure' = NoMeasure
    /\ UNCHANGED <<fixedVars, repoVars, i, j, diff_count1, diff_count2,
                   results, exc, prev_active_branch, report, entryVars,
                   scope, cleanupLog, conflicted, tried, trace, answers>>

\* A cleanup command has run: logged, and on failure its GitCommandError
\* leaves the finally clause at once, the rest of the cleanup not run.
CleanupStep(name, ok) ==
    /\ cleanupLog' = Append(cleanupLog, [step |-> name, ok |-> ok])
    /\ lastTrial' = NoTrial
    /\ lastMeasure' = NoMeasure
    /\ IF ok
       THEN pc' = NextCleanupPc(pc) /\ UNCHANGED <<exc, scope>>
       ELSE pc' = "raised" /\ exc' = "GitCommandError" /\ scope' = "exited"

\* Line 125: repo.git.reset("--hard").
CleanupReset ==
    /\ pc = "cleanup_reset"
    /\ \E ok \in GitOutcomes :
         /\ CleanupStep("reset", ok)
         /\ IF ok THEN ResetHard(heads[active]) ELSE UNCHANGED repoVars
    /\ UNCHANGED <<fixedVars, i, j, diff_count1, diff_count2, results,
                   prev_active_branch, report, statusPrinted, entryVars,
                   conflicted, tried, trace, statusShown, answers>>

\* Line 126: repo.git.checkout(prev_active_branch).
CleanupCheckout ==
    /\ pc = "cleanup_checkout"
    /\ \E ok \in GitOutcomes :
         /\ CleanupStep("checkout", ok)
         /\ IF ok THEN Checkout(prev_active_branch) ELSE UNCHANGED repoVars
    /\ UNCHANGED <<fixedVars, i, j, diff_count1, diff_count2, results,
                   prev_active_branch, report, statusPrinted, entryVars,
                   conflicted, tried, trace, statusShown, answers>>

\* Line 127: repo.delete_head(_TmpBranchName, force=True), `git branch -D`,
\* which git refuses for the branch that is checked out.
CleanupDelete ==
    /\ pc = "cleanup_delete"
    /\ \E ok \in GitOutcomes :
         LET done == ok /\ active # TmpBranchName
         IN  /\ CleanupStep("delete", done)
             /\ IF done
                THEN /\ heads' = [heads EXCEPT ![TmpBranchName] = NoCommit]
                     /\ trace' = Append(trace, Close(i))
                     /\ UNCHANGED <<active, worktree>>
                ELSE UNCHANGED <<repoVars, trace>>
    /\ UNCHANGED <<fixedVars, i, j, diff_count1, diff_count2, results,
                   prev_active_branch, report, statusPrinted, entryVars,
                   conflicted, tried, statusShown, answers>>

\* The `with` statement ends: the exception of the body, if any, goes on
\* out of apply_and_diff_commit_pairs; else the loop takes the next commit1.
ScopeExit ==
    /\ pc = "cleanup_end"
    /\ pc' = AfterCleanup(exc)
    /\ scope' = "exited"
    /\ i' = IF AfterCleanup(exc) = "loop" THEN i + 1 ELSE i
    /\ UNCHANGED <<fixedVars, repoVars, j, diff_count1, diff_count2, results,
                   exc, prev_active_branch, report, statusPrinted,
                   entryVars, cleanupLog, lastTrial, conflicted, tried,
                   trace, lastMeasure, statusShown, answers>>

(***************************************************************************)
(* main, lines 186-189.                                                    *)
(***************************************************************************)
\* Line 84 and line 188: the scan returns its results to main.
Return ==
    /\ pc = "return"
    /\ pc' = "returned"
    /\ UNCHANGED <<fixedVars, repoVars, i, j, diff_count1, diff_count2,
                   results, exc, prev_active_branch, report, statusPrinted,
                   entryVars, scope, cleanupLog, lastTrial, conflicted,
                   tried, trace, lastMeasure, statusShown, answers>>

\* print_results, lines 173-183: "Done. Results:" and the sorted results.
PrintResults ==
    /\ pc = "returned"
    /\ report' = Some(SortByKey(results))
    /\ pc' = "done"
    /\ UNCHANGED <<fixedVars, repoVars, i, j, diff_count1, diff_count2,
                   results, exc, prev_active_branch, statusPrinted,
                   entryVars, scope, cleanupLog, lastTrial, conflicted,
                   tried, trace, lastMeasure, statusShown, answers>>

ScanNext ==
    \/ Start
    \/ LoopHead
    \/ EnterCreate
    \/ EnterCheckout
    \/ Baseline
    \/ TrialReset
    \/ TrialPick
    \/ TrialDiff
    \/ TrialShow
    \/ ExceptStatus
    \/ CleanupReset
    \/ CleanupCheckout
    \/ CleanupDelete
    \/ ScopeExit
    \/ Return
    \/ PrintResults

Next == ScanNext

\* The scan from every initial repository.
Spec == Init /\ [][Next]_vars

(***************************************************************************)
(* The user's interrupt: KeyboardInterrupt is raised in the statement that *)
(* is running, and git, in the same process group, is interrupted too.     *)
(***************************************************************************)
\* The statements of the body of the `with` (lines 75-83, 93-110).
BodyPcs ==
    {"baseline", "trial_reset", "trial_pick", "trial_diff", "trial_show"}

\* The statements of the finally clause (lines 125-127) and their commands.
CleanupPcs == {"cleanup_reset", "cleanup_checkout", "cleanup_delete"}
CleanupCommand(p) ==
    CASE p = "cleanup_reset" -> "reset"
      [] p = "cleanup_checkout" -> "checkout"
      [] p = "cleanup_delete" -> "delete"

\* The statements that run a git command which writes the working copy: an
\* interrupt may leave it partially written.
WritingPcs ==
    {"enter_checkout", "trial_reset", "trial_pick", "cleanup_reset",
     "cleanup_checkout"}

InterruptiblePcs ==
    BodyPcs \cup CleanupPcs
      \cup {"start", "loop", "enter_create", "enter_checkout",
            "except_status", "cleanup_end", "return", "returned"}

\* KeyboardInterrupt in the statement at pc.  In the body it is thrown into
\* in_tmp_branch at its yield (line 119): no except clause matches and the
\* finally clause runs.  In the except clause it replaces the error and the
\* finally clause runs.  In the finally clause it ends the cleanup where it
\* is.  Anywhere else it leaves the scan at once.  main (lines 186-189) does
\* not catch it.
Interrupt ==
    /\ pc \in InterruptiblePcs
    /\ lastTrial' = NoTrial
    /\ lastMeasure' = NoMeasure
    /\ UNCHANGED <<heads, active>>
    /\ \E partial \in (IF pc \in WritingPcs THEN BOOLEAN ELSE {FALSE}) :
         /\ worktree' = IF partial
                        THEN [worktree EXCEPT !.mods = "partial"]
                        ELSE worktree
         /\ trace' =
              IF pc \in BodyPcs
              THEN Append(trace,
                          Interrupted(i, j, partial /\ pc = "trial_pick"))
              ELSE trace
    /\ CASE pc \in BodyPcs ->
              /\ LeaveBody("KeyboardInterrupt")
              /\ UNCHANGED cleanupLog
         [] pc = "except_status" ->
              /\ pc' = "cleanup_reset"
              /\ exc' = "KeyboardInterrupt"
              /\ UNCHANGED <<j, diff_count1, diff_count2, scope, cleanupLog>>
         [] pc \in CleanupPcs ->
              /\ pc' = "raised"
              /\ exc' = "KeyboardInterrupt"
              /\ scope' = "exited"
              /\ cleanupLog' = Append(cleanupLog, [step |-> CleanupCommand(pc),
                                                   ok |-> FALSE])
              /\ UNCHANGED <<j, diff_count1, diff_count2>>
         [] OTHER ->
              /\ pc' = "raised"
              /\ exc' = "KeyboardInterrupt"
              /\ scope' = IF scope = "cleanup" THEN "exited" ELSE scope
              /\ UNCHANGED <<j, diff_count1, diff_count2, cleanupLog>>
    /\ UNCHANGED <<fixedVars, i, results, prev_active_branch, report,
                   statusPrinted, entryVars, conflicted, tried,
                   statusShown, answers>>

NextInterrupt == ScanNext \/ Interrupt

\* The scan, started in a clean working copy, with a user who may interrupt
\* it.
InitInterrupt ==
    /\ \E n \in 0 .. MaxInterruptedCommits : ScanInit(n, "clean", {}, 0)
    /\ ParserInit

SpecInterrupt == InitInterrupt /\ [][NextInterrupt]_vars

(***************************************************************************)
(* Two scans of the same repository, one after the other.                  *)
(***************************************************************************)
\* The tool is run again (main, lines 186-189) after a scan that printed
\* its report: a new GitHelper, a new results list.  The repository is
\* unchanged: it answers the queries of the second scan as it answered
\* those of the first.
Rescan ==
    /\ pc = "done"
    /\ run = 1
    /\ active = LocalBranch
    /\ run' = 2
    /\ report1' = report
    /\ pc' = "start"
    /\ i' = 0
    /\ results' = <<>>
    /\ report' = None
    /\ scope' = "out"
    /\ cleanupLog' = <<>>
    /\ tried' = {}
    /\ conflicted' = {}
    /\ trace' = <<>>
    /\ UNCHANGED <<repoVars, nCommits, j, diff_count1, diff_count2, exc,
                   prev_active_branch, statusPrinted, worktree0,
                   entryVars, lastTrial, lastMeasure, statusShown,
                   merges, answers, parseVars>>

InitTwice ==
    /\ \E n \in 0 .. MaxCommits : ScanInit(n, "clean", {}, 1)
    /\ ParserInit

NextTwice == ScanNext \/ Rescan

SpecTwice == InitTwice /\ [][NextTwice]_vars

\* The scan of a feature branch that may hold merge commits.
InitMerge ==
    /\ \E n \in 0 .. MaxCommits, mods \in {"clean", "user"} :
         \E ms \in SUBSET (1 .. n) : ScanInit(n, mods, ms, 0)
    /\ ParserInit

SpecMerge == InitMerge /\ [][Next]_vars

\* The commits a branch named _TmpBranchName may point to before the scan
\* of n commits: the merge base or a commit of the feature branch (the user's
\* own branch of that name), or what an earlier scan of the same commits
\* left behind when its cleanup did not delete the branch.
LeftBehind(n) ==
    {Picked(a, b) : a \in 1 .. n, b \in 1 .. n} \ {Picked(a, a) : a \in 1 .. n}
TmpBranchTargets(n) == {Commit(k) : k \in 0 .. n} \cup LeftBehind(n)

\* The scan of a repository that may already have a branch named
\* _TmpBranchName, which is not the active one (lines 42-43).
InitTmpBranch ==
    /\ \E n \in 0 .. MaxCommits, mods \in {"clean", "user"} :
         /\ mods = "user" => n <= MaxDirtyCommits
         /\ \E tmp \in {NoCommit} \cup TmpBranchTargets(n) :
              ScanInitOn(n, mods, {}, 0, tmp)
    /\ ParserInit

SpecTmpBranch == InitTmpBranch /\ [][Next]_vars

(***************************************************************************)
(* The parser on its own: a line is built fragment by fragment and parsed. *)
(***************************************************************************)
AppendFragment ==
    /\ parsed = NotParsed
    /\ Len(frags) < MaxFragments
    /\ \E f \in Fragments :
         /\ frags' = Append(frags, f)
         /\ line' = line \o Render(f)
    /\ UNCHANGED <<parsed, repoVars, scanVars, histVars, backendVars>>

ParseLine ==
    /\ parsed = NotParsed
    /\ parsed' = get_shortstat_total(line)
    /\ UNCHANGED <<frags, line, repoVars, scanVars, histVars, backendVars>>

ParseInit == ScanInit(0, "clean", {}, 0) /\ ParserInit

ParseNext == AppendFragment \/ ParseLine

SpecParse == ParseInit /\ [][ParseNext]_vars

(***************************************************************************)
(* Properties of the temporary-branch scope and of the scan.               *)
(***************************************************************************)
\* The pairs (commit1, commit2) of the result tuples.
ResultPairs == {<<results[k][3], results[k][4]>> : k \in 1 .. Len(results)}

\* The pairs of a scan of n commits.
AllPairs(n) == {p \in (1 .. n) \X (1 .. n) : p[1] < p[2]}

\* Every cleanup command that ran at the last scope exit succeeded.
CleanupSucceeded == \A k \in 1 .. Len(cleanupLog) : cleanupLog[k].ok

\* The scorer invocation has ended: it returned, or raised.
ScanEnded == pc \in {"returned", "done", "raised"}

\* C1: once a temporary-branch scope that was entered has exited, however
\* its body ended (normally, with a GitCommandError, with the parser's
\* RuntimeError) and whatever rewinds and replays ran in it, the active
\* branch is the one that was active at entry and the temporary branch does
\* not exist; the cleanup commands themselves are taken to succeed.
TmpBranchScopeInvariant ==
    (scope = "exited" /\ CleanupSucceeded)
        => (active = activeAtEntry /\ heads[TmpBranchName] = NoCommit)

\* A scope has exited whose body replayed with a conflict and was ended by
\* the parser's RuntimeError.
TmpBranchScopeWitness ==
    /\ scope = "exited"
    /\ CleanupSucceeded
    /\ exc = "RuntimeError"
    /\ conflicted # {}
    /\ active = LocalBranch

\* C2: when the scorer invocation has ended, by return or by any failure of a
\* backend command, the active branch is the one of the start and the
\* temporary branch does not exist.
ScorerRestoresReference ==
    ScanEnded => (active = LocalBranch /\ heads[TmpBranchName] = NoCommit)

\* C3: when the scorer invocation has ended, by return or by a failure inside
\* an experiment that the cleanup has handled, the working copy is what it
\* was at the start, uncommitted changes included.
WorkingCopyRestored ==
    (pc \in {"returned", "done"}
       \/ (pc = "raised" /\ scope = "exited" /\ CleanupSucceeded))
        => worktree = worktree0

\* C4: the cleanup commands of a scope exit run in the order reset,
\* checkout, delete, each only after the one before it succeeded; the
\* temporary branch is never deleted, nor its deletion attempted, while it is
\* the active branch; a scope exit that completes has run all three.
CleanupOrder == <<"reset", "checkout", "delete">>

CleanupOrdering ==
    /\ Len(cleanupLog) <= Len(CleanupOrder)
    /\ \A k \in 1 .. Len(cleanupLog) :
         /\ cleanupLog[k].step = CleanupOrder[k]
         /\ k > 1 => cleanupLog[k - 1].ok
    /\ pc = "cleanup_delete" => active # TmpBranchName
    /\ active = TmpBranchName => heads[TmpBranchName] # NoCommit
    /\ pc = "cleanup_end" => (Len(cleanupLog) = 3 /\ CleanupSucceeded)

\* The checkout of the previous branch failed: the deletion has not run and
\* the temporary branch is still there.
CleanupOrderingWitness ==
    /\ Len(cleanupLog) = 2
    /\ cleanupLog[1].ok
    /\ ~cleanupLog[2].ok
    /\ pc = "raised"
    /\ active = TmpBranchName
    /\ heads[TmpBranchName] # NoCommit

\* C5: a pair is in the results exactly when its replay applied and
\* (combined - baseline) - standalone is negative, and then its tuple holds
\* that score and combined - baseline; no replay that failed is recorded; all
\* recorded scores are negative, each pair is recorded once, and c1 < c2.
DecisionRule ==
    /\ lastTrial.kind = "measured" =>
         LET rel == lastTrial.combined - lastTrial.baseline
             adj == rel - lastTrial.standalone
             pair == <<lastTrial.c1, lastTrial.c2>>
         IN  /\ pair \in ResultPairs <=> adj < 0
             /\ adj < 0 => results[Len(results)] =
                             <<adj, rel, lastTrial.c1, lastTrial.c2>>
    /\ lastTrial.kind \in {"conflict", "error"} =>
         <<lastTrial.c1, lastTrial.c2>> \notin ResultPairs
    /\ \A k \in 1 .. Len(results) :
         /\ results[k][1] < 0
         /\ results[k][3] < results[k][4]
    /\ Cardinality(ResultPairs) = Len(results)
    /\ ResultPairs \subseteq tried \ conflicted

\* A pair whose combined size equals the baseline (relativeDiff = 0) has
\* been recorded.
DecisionRuleWitness ==
    /\ lastTrial.kind = "measured"
    /\ lastTrial.combined = lastTrial.baseline
    /\ Len(results) > 0
    /\ results[Len(results)] =
         <<0 - lastTrial.standalone, 0, lastTrial.c1, lastTrial.c2>>

\* C6: a pair whose replay conflicted is never in the results; the conflict
\* raises nothing, the scan goes on with the next commit2 of the same commit1
\* or, after the last one, leaves the scope normally; a scan that returns
\* has tried every pair.
ConflictHandling ==
    /\ conflicted \cap ResultPairs = {}
    /\ lastTrial.kind = "conflict" =>
         /\ exc = "none"
         /\ i = lastTrial.c1
         /\ IF lastTrial.c2 < nCommits
            THEN pc = "trial_reset" /\ j = lastTrial.c2 + 1
            ELSE pc = "cleanup_reset"
    /\ pc \in {"returned", "done"} => tried = AllPairs(nCommits)

\* A scan has returned in which (c1, c2) conflicted and the later pairs
\* (c1, c3) and (c2, c3) were scored.
ConflictHandlingWitness ==
    /\ pc = "done"
    /\ <<1, 2>> \in conflicted
    /\ <<1, 3>> \in ResultPairs
    /\ <<2, 3>> \in ResultPairs

\* C7: a replay that fails for another reason than a conflict aborts the
\* scan: its error leaves the body of the scope.
NonConflictFailureIsFatal ==
    lastTrial.kind = "error" => (exc = "GitCommandError" /\ scope = "cleanup")

\* C8: once a fatal error is in flight the scan never resumes and nothing is
\* returned or reported: control is in the cleanup or the error has left the
\* scorer, and "Done. Results:" has not been printed.
AbortPcs ==
    {"except_status", "cleanup_reset", "cleanup_checkout", "cleanup_delete",
     "cleanup_end", "raised"}

NoPartialResults ==
    /\ exc # "none" => (pc \in AbortPcs /\ report = None)
    /\ pc = "raised" => exc # "none"
    /\ report # None => (pc = "done" /\ exc = "none")

\* The show output of a later pair failed to parse after a pair had been
\* scored: the error has left the scorer and nothing was reported.
NoPartialResultsWitness ==
    /\ pc = "raised"
    /\ exc = "RuntimeError"
    /\ Len(results) > 0
    /\ report = None
    /\ CleanupSucceeded
    /\ Len(cleanupLog) = 3

(***************************************************************************)
(* Properties of the measurements and of the order of the scan.            *)
(***************************************************************************)
\* The measurements count_changed_lines_since makes.
DiffMeasures == {"baseline", "combined"}

\* C11: count_changed_lines_since returns the total for every diff git
\* answers; when the answer is empty (no line difference) it returns 0: no
\* error is raised, the baseline or the combined size is 0 and the scan goes
\* on to the next statement.
ChangedLinesSinceTotal ==
    (lastMeasure.what \in DiffMeasures
       /\ lastMeasure.answer \in {"empty", "summary"})
        => /\ exc = "none"
           /\ lastMeasure.what = "baseline" =>
                pc \in {"trial_reset", "cleanup_reset"}
           /\ lastMeasure.what = "combined" => pc = "trial_show"
           /\ (lastMeasure.what = "combined"
                 /\ lastMeasure.answer = "empty") => diff_count2 = 0


\* The trace the nested loop of lines 70-83 is said to make for n commits:
\* for each commit1 in turn its scope is opened, every later commit2 is
\* tried in turn, and the scope is closed.
RECURSIVE TrialsFrom(_, _, _)
TrialsFrom(c1, c2, n) ==
    IF c2 > n THEN <<>> ELSE <<Tried(c1, c2)>> \o TrialsFrom(c1, c2 + 1, n)

RECURSIVE ScopesFrom(_, _)
ScopesFrom(c1, n) ==
    IF c1 > n THEN <<>>
    ELSE <<Open(c1)>> \o TrialsFrom(c1, c1 + 1, n) \o <<Close(c1)>>
           \o ScopesFrom(c1 + 1, n)

\* That trace, for each number of commits.
ExpectedTrace == [n \in 0 .. MaxCommits |-> ScopesFrom(1, n)]

IsPrefix(a, b) == Len(a) <= Len(b) /\ a = SubSeq(b, 1, Len(a))

\* C12: as long as no fatal error has occurred the trace of scope events is
\* a prefix of open(c1), trials (1,2) .. (1,n), close(c1), open(c2), ...,
\* open(cn), close(cn), and the trace of a scan that returns is all of it:
\* pairs are tried in lexicographic order, each once, none with j <= i, and
\* a scope is closed before the next is opened.
TrialOrdering ==
    /\ exc = "none" => IsPrefix(trace, ExpectedTrace[nCommits])
    /\ pc \in {"returned", "done"} => trace = ExpectedTrace[nCommits]

\* A scan of three commits has returned with the whole trace.
TrialOrderingWitness ==
    /\ pc = "done"
    /\ trace = <<Open(1), Tried(1, 2), Tried(1, 3), Close(1),
                 Open(2), Tried(2, 3), Close(2), Open(3), Close(3)>>

\* C13: the report holds exactly the result tuples of the scan, none added
\* and none dropped, in non-decreasing order of the adjusted score.
ReportOrder ==
    report # None =>
        LET r == report[1]
        IN  /\ Len(r) = Len(results)
            /\ {r[k] : k \in 1 .. Len(r)}
                 = {results[k] : k \in 1 .. Len(results)}
            /\ \A k \in 1 .. Len(r) - 1 : r[k][1] <= r[k + 1][1]

\* A report has been printed whose order is not the order of the scan: the
\* pair found last has the most negative score and comes first.
ReportOrderWitness ==
    /\ report # None
    /\ Len(results) >= 2
    /\ report[1] # results
    /\ report[1][1] = results[Len(results)]

\* The pair (a1, a2) comes before the pair (b1, b2) in the scan.
ScannedBefore(a1, a2, b1, b2) == a1 < b1 \/ (a1 = b1 /\ a2 < b2)

\* C14: the second of two scans of an unchanged repository, every replay
\* and diff query answered as in the first, prints the same ordered report;
\* and in every report, tuples of equal adjusted score stand in the order
\* the scan found them: commit1 ascending, then commit2 ascending.
ScanDeterminism ==
    /\ (run = 2 /\ report # None) => report = report1
    /\ report # None =>
         \A k \in 1 .. Len(report[1]) - 1 :
            report[1][k][1] = report[1][k + 1][1] =>
                ScannedBefore(report[1][k][3], report[1][k][4],
                              report[1][k + 1][3], report[1][k + 1][4])

\* The second scan has printed its report, the same as the first, in which
\* two pairs of equal score come after a pair that was found later.
ScanDeterminismWitness ==
    /\ run = 2
    /\ report # None
    /\ report = report1
    /\ Len(report[1]) = 3
    /\ report[1][1][3] = 2
    /\ report[1][2][1] = report[1][3][1]

\* C15: when the commit sequence holds a commit with more than one parent,
\* the scan fails before any scope is opened and before any replay: the
\* temporary branch is never created, no pair is tried, and no merge commit
\* is ever replayed as commit2.
MultiParentFailFast ==
    /\ merges # {} =>
         /\ trace = <<>>
         /\ tried = {}
         /\ heads[TmpBranchName] = NoCommit
         /\ pc \in {"start", "loop", "raised"}
    /\ \A p \in tried : p[2] \notin merges

\* C16: whenever a fatal error of the body (a failed git command, a diff
\* output that does not parse) is on its way out of the scope, `git status`
\* has been run for it, and it was run before the cleanup changed anything:
\* when the cleanup starts, what it showed is the repository as it is.
FatalErrors == {"GitCommandError", "RuntimeError"}

StatusOnFatalError ==
    (exc \in FatalErrors /\ scope = "cleanup" /\ pc # "except_status")
        => /\ statusShown.ran
           /\ (pc = "cleanup_reset" /\ statusShown.ok) =>
                (statusShown.active = active
                   /\ statusShown.worktree = worktree)

\* C17: the rewind to commit1 and the replay of commit2 are executed only
\* inside an open scope with the temporary branch active, and the feature
\* branch points to the same commit in every reachable state.
MutationContainment ==
    /\ pc \in {"trial_reset", "trial_pick"} =>
         (scope = "in" /\ active = TmpBranchName)
    /\ heads[LocalBranch] = Commit(nCommits)
    /\ active = LocalBranch => worktree.at = Commit(nCommits)

\* A replay has been applied: the temporary branch has moved to the picked
\* commit and the feature branch has not.
MutationContainmentWitness ==
    /\ pc = "trial_diff"
    /\ active = TmpBranchName
    /\ heads[TmpBranchName] = Picked(1, 2)
    /\ worktree.at = Picked(1, 2)
    /\ heads[LocalBranch] = Commit(nCommits)

\* C18: when the replay of commit2 is about to run, the temporary branch and
\* the working copy are at commit1 with nothing uncommitted, whatever the
\* trial before left; and the scope was not closed and opened again since
\* that trial: the last event is the trial of the commit2 before, or, for
\* the first commit2, the opening of the scope.
RewindBeforeTrial ==
    pc = "trial_pick" =>
        /\ scope = "in"
        /\ active = TmpBranchName
        /\ heads[TmpBranchName] = Commit(i)
        /\ worktree = [at |-> Commit(i), mods |-> "clean"]
        /\ Len(trace) > 0
        /\ trace[Len(trace)] =
             IF j = FirstCommit2(i) THEN Open(i) ELSE Tried(i, j - 1)

\* The replay of the third commit is about to run after the replay of the
\* second one conflicted.
RewindBeforeTrialWitness ==
    /\ pc = "trial_pick"
    /\ i = 1
    /\ j = 3
    /\ <<1, 2>> \in conflicted
    /\ worktree = [at |-> Commit(1), mods |-> "clean"]

\* C19: when the baseline size of commit1 cannot be computed (git diff
\* fails, or prints what the parser does not accept), no error is raised:
\* the scope of commit1 is closed with nothing recorded for it and the scan
\* goes on.
BaselineFailureSkipsCommit ==
    (lastMeasure.what = "baseline"
       /\ lastMeasure.answer \in {"failed", "empty"})
        => /\ exc = "none"
           /\ pc = "cleanup_reset"
           /\ \A p \in ResultPairs : p[1] # lastMeasure.c1

\* An interrupt was raised while the body of a scope was executing.
InterruptedInBody ==
    \E k \in 1 .. Len(trace) :
        trace[k][1] \in {"interrupt", "interrupt_partial"}

\* The repository as it was before the scan, nothing uncommitted.
RestoredClean ==
    /\ active = LocalBranch
    /\ heads[TmpBranchName] = NoCommit
    /\ worktree = [at |-> Commit(nCommits), mods |-> "clean"]

BranchSetPreserved ==
    (scope = "exited" /\ Len(cleanupLog) = 3 /\ CleanupSucceeded)
        => heads = headsAtEntry

(***************************************************************************)
(* Properties of the parser.                                               *)
(***************************************************************************)
\* The shape "<N> file(s) changed[, <X> insertion(s)(+)][, <Y> deletion(s)(-)]"
\* of the summary grammar, in fragments.
IsSummaryShape(fs) ==
    /\ Len(fs) \in 1 .. 3
    /\ fs[1].kind = "file"
    /\ Len(fs) = 2 => fs[2].kind \in {"ins", "del"}
    /\ Len(fs) = 3 => (fs[2].kind = "ins" /\ fs[3].kind = "del")

\* X + Y of a line of that shape, an absent clause counting 0.
RECURSIVE SummaryTotal(_)
SummaryTotal(fs) ==
    IF Len(fs) = 0 THEN 0
    ELSE (IF Head(fs).kind \in {"ins", "del"} THEN Head(fs).n ELSE 0)
           + SummaryTotal(Tail(fs))

\* The line starts with the blank git prints before the summary.
HasLead(fs) == Len(fs) > 0 /\ fs[1] = F_lead

HasParsed == parsed # NotParsed

\* C9, as stated: every line of the summary shape, written as the spec
\* writes it or with the leading blank of the doctests, parses to X + Y.
ParserResultAsStated ==
    (HasParsed /\ (IsSummaryShape(frags)
                     \/ (HasLead(frags) /\ IsSummaryShape(Tail(frags)))))
        => parsed = [ok |-> TRUE,
                     value |-> SummaryTotal(frags)]

\* C9, amended: a line of the summary shape that starts with the one blank
\* git prints parses to X + Y; the same line without that blank is rejected.
ParserResult ==
    /\ (HasParsed /\ HasLead(frags) /\ IsSummaryShape(Tail(frags)))
         => parsed = [ok |-> TRUE, value |-> SummaryTotal(frags)]
    /\ (HasParsed /\ IsSummaryShape(frags)) => ~parsed.ok

\* " 2 files changed, 1 insertion(+), 5 deletions(-)" has parsed to 6.
ParserResultWitness ==
    /\ frags = <<F_lead, F_file(2, TRUE), F_ins(1, FALSE), F_del(5, TRUE)>>
    /\ parsed = [ok |-> TRUE, value |-> 6]

\* C10: a line that is not of the summary shape, with or without the
\* leading blank, is rejected.
ParserRejectsOtherLines ==
    (HasParsed /\ ~IsSummaryShape(frags)
       /\ ~(HasLead(frags) /\ IsSummaryShape(Tail(frags))))
        => ~parsed.ok

=============================================================================
